---- MODULE Spec2Model ----
(***************************************************************************)
(* A model of SHA-256_implemetation.py: the bitwise primitives, the        *)
(* constant generators, padding, parsing and the sha256 function, the      *)
(* last as a state machine with one action per loop iteration.             *)
(*                                                                         *)
(* Python integers are unbounded.  A non-negative Python int is modelled   *)
(* as the set of the positions of its 1 bits (bit 0 the least              *)
(* significant), so that no machine width is built into the model: a       *)
(* value is a Word exactly when its set lies within 0..31.  A bytes object *)
(* is a sequence of numbers in 0..255.                                     *)
(***************************************************************************)
EXTENDS Integers, Sequences, FiniteSets, TLC

VARIABLES
    pc,            \* position of the process: which loop of sha256 runs next
    calls,         \* number of sha256 calls started in this process
    gen_runs,      \* number of times gen_keys ran in this process
    input,         \* the argument of the current sha256 call
    msg,           \* sha256's local msg after padding
    msg_blocks,    \* sha256's local msg_blocks
    bi,            \* index (1-based) of the block the for loop is at
    msg_schedule,  \* sha256's local msg_schedule
    t,             \* loop counter of the schedule loop / the round loop
    wv,            \* the working variables <<a, b, c, d, e, f, g, h>>
    key,           \* sha256's local key (gen_keys' list as far as built)
    hash_value,    \* sha256's local hash_value (gen_initial_hash's list)
    H,             \* sha256's local H
    digest,        \* the bytes sha256 returned
    ncompress,     \* number of times the 64-round loop was entered in this call
    ulp,           \* rounding error (in ulps) of the last float power taken
    arg_x, arg_n,  \* arguments of a call of a primitive
    ret            \* what that call returned

vars == <<pc, calls, gen_runs, input, msg, msg_blocks, bi, msg_schedule, t, wv,
          key, hash_value, H, digest, ncompress, ulp, arg_x, arg_n, ret>>

----------------------------------------------------------------------------
(* Python int arithmetic on bit sets *)

\* the Python int with the value of the small natural v
BitsOf(v) == {i \in 0..30 : (v \div 2^i) % 2 = 1}

\* x << n
shl(x, n) == {i + n : i \in x}

\* x ^ y
xor(x, y) == (x \ y) \cup (y \ x)

\* x + y : x + y = (x ^ y) + ((x & y) << 1), until no carry is left
RECURSIVE add(_, _)
add(x, y) == IF y = {} THEN x ELSE add(xor(x, y), shl(x \cap y, 1))

\* x % 2**32
mod32(x) == {i \in x : i < 32}

\* the number held by the width bits of x from position lo upward
RECURSIVE Field(_, _, _)
Field(x, lo, width) ==
    IF width = 0 THEN 0
    ELSE (IF lo \in x THEN 1 ELSE 0) + 2 * Field(x, lo + 1, width - 1)

----------------------------------------------------------------------------
(* SHA-256 functions *)

\* rotr's default parameter size=32
size == 32

\* shr: x >> n
shr(x, n) == {i - n : i \in {j \in x : j >= n}}

\* rotr: (x >> n) | (x << size-n); nothing reduces the left shift to 32 bits
rotr(x, n) == shr(x, n) \cup shl(x, size - n)

\* ch: (x & y) ^ (~x & z); ~x is -x-1, whose bits are the complement of x's
\* at every position, so ~x & z keeps the bits of z that x lacks
ch(x, y, z) == xor(x \cap y, z \ x)

\* maj: (x & y) ^ (x & z) ^ (y & z)
maj(x, y, z) == xor(xor(x \cap y, x \cap z), y \cap z)

summation0(x) == xor(xor(rotr(x, 2), rotr(x, 13)), rotr(x, 22))

summation1(x) == xor(xor(rotr(x, 6), rotr(x, 11)), rotr(x, 25))

sigma0(x) == xor(xor(rotr(x, 7), rotr(x, 18)), shr(x, 3))

sigma1(x) == xor(xor(rotr(x, 17), rotr(x, 19)), shr(x, 10))

\* int.from_bytes(x, 'big')
bytes_to_integer(x) ==
    UNION {{8 * (Len(x) - k) + j : j \in {i \in 0..7 : (x[k] \div 2^i) % 2 = 1}}
             : k \in 1..Len(x)}

\* x.to_bytes(length, 'big') raises OverflowError when x needs more bytes
to_bytes_raises(x, length) == \E i \in x : i >= 8 * length

\* x.to_bytes(length, 'big'), when it does not raise
to_bytes(x, length) == [k \in 1..length |-> Field(x, 8 * (length - k), 8)]

\* integer_to_bytes: x.to_bytes(4, 'big')
integer_to_bytes(x) == to_bytes(x, 4)

----------------------------------------------------------------------------
(* SHA-256 constants *)

\* the generator of generate_n_primes: the numbers from 2 on that no d in
\* range(2, n) divides
is_prime(c) == \A d \in 2..(c - 1) : c % d # 0

\* the generator's search for its next value, from c upward
RECURSIVE next_prime(_)
next_prime(c) == IF is_prime(c) THEN c ELSE next_prime(c + 1)

\* the first n values the generator yields from c upward
RECURSIVE primes_from(_, _)
primes_from(c, n) ==
    IF n = 0 THEN <<>>
    ELSE <<next_prime(c)>> \o primes_from(next_prime(c) + 1, n - 1)

\* generate_n_primes counting from 1 instead of 2
generate_n_primes_from_1(n) == primes_from(1, n)

\* generate_n_primes: islice(primes, 0, n)
generate_n_primes(n) == primes_from(2, n)

(* prime ** (1/n) is a float power.  A float (IEEE double) is modelled by  *)
(* its 53-bit significand m and its scale s, the value being m / 2^s.  m   *)
(* is too wide for a machine integer, so it is held as limbs in base       *)
(* Base, least significant first.                                          *)
LimbBits == 14

Base == 2^LimbBits

MantissaBits == 53

Limb(x, i) == IF i <= Len(x) THEN x[i] ELSE 0

\* limbs that may lie outside 0..Base-1, brought back with carries (borrows)
RECURSIVE Carry(_, _)
Carry(x, c) ==
    IF x = <<>> THEN (IF c = 0 THEN <<>> ELSE <<c % Base>> \o Carry(<<>>, c \div Base))
    ELSE <<(Head(x) + c) % Base>> \o Carry(Tail(x), (Head(x) + c) \div Base)

RECURSIVE Conv(_, _, _, _)
Conv(x, y, k, i) ==
    IF i > Len(x) \/ i > k THEN 0
    ELSE x[i] * Limb(y, k - i + 1) + Conv(x, y, k, i + 1)

BigMul(x, y) == Carry([k \in 1..(Len(x) + Len(y)) |-> Conv(x, y, k, 1)], 0)

RECURSIVE BigPow(_, _)
BigPow(x, n) == IF n = 1 THEN x ELSE BigMul(BigPow(x, n - 1), x)

\* x <= y, comparing limbs i, i-1, .., 1
RECURSIVE BigLeqFrom(_, _, _)
BigLeqFrom(x, y, i) ==
    IF i = 0 THEN TRUE
    ELSE IF Limb(x, i) # Limb(y, i) THEN Limb(x, i) < Limb(y, i)
    ELSE BigLeqFrom(x, y, i - 1)

BigLeq(x, y) == BigLeqFrom(x, y, IF Len(x) > Len(y) THEN Len(x) ELSE Len(y))

\* v * 2^k for a small natural v
BigShifted(v, k) ==
    Carry([i \in 1..(k \div LimbBits) |-> 0] \o <<v * 2^(k % LimbBits)>>, 0)

BigBit(x, i) == (Limb(x, i \div LimbBits + 1) \div 2^(i % LimbBits)) % 2

SetBit(r, b) == [r EXCEPT ![b \div LimbBits + 1] = @ + 2^(b % LimbBits)]

\* the largest r with r^n <= target among those that agree with r above
\* bit b: bit b is set when c, r with bit b set, still has c^n <= target
RECURSIVE RootDown(_, _, _, _, _)
RootDown(target, n, r, c, b) ==
    IF BigLeq(BigPow(c, n), target)
    THEN (IF b = 0 THEN c ELSE RootDown(target, n, c, SetBit(c, b - 1), b - 1))
    ELSE (IF b = 0 THEN r ELSE RootDown(target, n, r, SetBit(r, b - 1), b - 1))

\* floor(target^(1/n)) for a root below 2^bits
BigRoot(target, n, bits) ==
    RootDown(target, n, [i \in 1..(bits \div LimbBits + 1) |-> 0],
             [i \in 1..(bits \div LimbBits + 1) |->
                 IF i = (bits - 1) \div LimbBits + 1 THEN 2^((bits - 1) % LimbBits) ELSE 0],
             bits - 1)

\* the binary exponent of prime ** (1/n): 2^e <= root < 2^(e+1)
RootExponent(prime, n) == CHOOSE e \in 0..8 : 2^(e * n) <= prime /\ prime < 2^((e + 1) * n)

(* prime ** (1/n) as a float.  The exponent 1/n is itself rounded and the  *)
(* power is as exact as the C library's pow: the result is a double within *)
(* a few units in the last place of the real root.  err is that distance,  *)
(* counted from the real root rounded down, in units in the last place.    *)
float_scale(prime, n) == MantissaBits - 1 - RootExponent(prime, n)

\* the real root of prime, times 2^scale, rounded down
real_root(prime, n) == BigRoot(BigShifted(prime, n * float_scale(prime, n)), n, MantissaBits)

\* the primes the generators draw
Primes == generate_n_primes(64)

\* real_root, tabulated once for the primes the generators use
RootMemo ==
    [n \in {2, 3} |->
        [prime \in {Primes[i] : i \in 1..(IF n = 2 THEN 8 ELSE 64)} |-> real_root(prime, n)]]

Nudge(down, err) == Carry(<<Head(down) + err>> \o Tail(down), 0)

\* the float prime ** (1/n)
float_pow(prime, n, err) == Nudge(RootMemo[n][prime], err)

\* the top bits of the fraction of the float with significand m and scale s:
\* root - math.floor(root) is exact, and so is the product with
\* 16**hex_chars, a power of two; math.floor drops the bits below 1
FractionBits(m, s, hex_chars) ==
    {i \in 0..(4 * hex_chars - 1) : BigBit(m, i + s - 4 * hex_chars) = 1}

\* convert_prime_fraction_to_hex, with the float power's rounding error err
convert_prime_fraction_to_hex(prime, n, hex_chars, err) ==
    FractionBits(float_pow(prime, n, err), float_scale(prime, n), hex_chars)

\* the roots' rounding errors the model lets the float power make, in units
\* in the last place, to either side
PowUlps == 2

PowErrors == (0 - PowUlps)..PowUlps

KeysOf(primes, err) ==
    [i \in 1..Len(primes) |-> convert_prime_fraction_to_hex(primes[i], 3, 8, err)]

\* gen_keys, every root taken with rounding error err
gen_keys(err) == KeysOf(generate_n_primes(64), err)

InitialHashOf(primes, err) ==
    [i \in 1..Len(primes) |-> convert_prime_fraction_to_hex(primes[i], 2, 8, err)]

\* gen_initial_hash, every root taken with rounding error err
gen_initial_hash(err) == InitialHashOf(generate_n_primes(8), err)

\* the tables, for each rounding error
KeyTable == [err \in PowErrors |-> gen_keys(err)]

InitialHashTable == [err \in PowErrors |-> gen_initial_hash(err)]

----------------------------------------------------------------------------
(* padding and parsing *)

\* the while loop of padding: append 0x00 until len(msg)*8 % 512 == 448
RECURSIVE pad_zeros(_)
pad_zeros(m) == IF (Len(m) * 8) % 512 # 448 THEN pad_zeros(Append(m, 0)) ELSE m

\* padding with l taken after the appends instead of before them
padding_late_length(m) ==
    pad_zeros(Append(m, 128)) \o to_bytes(BitsOf(Len(pad_zeros(Append(m, 128))) * 8), 8)

\* padding; l = len(msg) * 8 is taken before the appends
padding(m) == pad_zeros(Append(m, 128)) \o to_bytes(BitsOf(Len(m) * 8), 8)

\* parsing: [msg[i:i+64] for i in range(0, len(msg), 64)]
parsing(m) ==
    [i \in 1..((Len(m) + 63) \div 64) |->
        SubSeq(m, 64 * (i - 1) + 1, IF 64 * i < Len(m) THEN 64 * i ELSE Len(m))]

----------------------------------------------------------------------------
(* sha256 *)

\* lines 104-108 with sigma0 and sigma1 exchanged
schedule_total_swapped(sched, i) ==
    mod32(add(add(add(sigma0(bytes_to_integer(sched[i - 2 + 1])),
                      bytes_to_integer(sched[i - 7 + 1])),
                  sigma1(bytes_to_integer(sched[i - 15 + 1]))),
              bytes_to_integer(sched[i - 16 + 1])))

\* lines 104-108: total, from the schedule built so far and the index t (0-based)
schedule_total(sched, i) ==
    mod32(add(add(add(sigma1(bytes_to_integer(sched[i - 2 + 1])),
                      bytes_to_integer(sched[i - 7 + 1])),
                  sigma0(bytes_to_integer(sched[i - 15 + 1]))),
              bytes_to_integer(sched[i - 16 + 1])))

\* line 115; % binds tighter than +, so only the schedule word is reduced
temp_1(v, k, w) ==
    add(add(add(add(v[8], summation1(v[5])), ch(v[5], v[6], v[7])), k),
        mod32(bytes_to_integer(w)))

\* line 116; only maj(a, b, c) is reduced
temp_2(v) == add(summation0(v[1]), mod32(maj(v[1], v[2], v[3])))

\* lines 117-124 with e = d + temp_1 left unreduced
round_assign_unreduced(v, t1, t2) ==
    <<mod32(add(t1, t2)), v[1], v[2], v[3], add(v[4], t1), v[5], v[6], v[7]>>

\* lines 117-124, v being <<a, b, c, d, e, f, g, h>>
round_assign(v, t1, t2) ==
    <<mod32(add(t1, t2)), v[1], v[2], v[3], mod32(add(v[4], t1)), v[5], v[6], v[7]>>

\* one iteration of the loop of lines 114-124
compress_round(v, k, w) == round_assign(v, temp_1(v, k, w), temp_2(v))

\* lines 129-131 without the % 2**32
fold_unreduced(hv, v) == [i \in 1..8 |-> add(hv[i], v[i])]

\* lines 129-131
fold(hv, v) == [i \in 1..8 |-> mod32(add(hv[i], v[i]))]

\* line 133: b''.join(integer_to_bytes(i) for i in H)
join_words(words) ==
    [i \in 1..(4 * Len(words)) |->
        integer_to_bytes(words[((i - 1) \div 4) + 1])[((i - 1) % 4) + 1]]

----------------------------------------------------------------------------
(* the process: sha256 called again and again on inputs of a bounded set *)

MaxLen == 64

MaxCalls == 2

\* first bytes of the inputs; 97 is "a", so Message(97, 3) is b'abc'
Seeds == {97, 200}

\* the n bytes seed, seed+1, ..
Message(seed, n) == [i \in 1..n |-> (seed + i - 1) % 256]

Inputs == {Message(seed, n) : seed \in Seeds, n \in 0..MaxLen}

Init ==
    /\ pc = "idle"
    /\ calls = 0
    /\ gen_runs = 0
    /\ input = <<>>
    /\ msg = <<>>
    /\ msg_blocks = <<>>
    /\ bi = 0
    /\ msg_schedule = <<>>
    /\ t = 0
    /\ wv = <<>>
    /\ key = <<>>
    /\ hash_value = <<>>
    /\ H = <<>>
    /\ digest = <<>>
    /\ ncompress = 0
    /\ ulp = 0
    /\ arg_x = {}
    /\ arg_n = 0
    /\ ret = {}

\* lines 81-91: the call, up to the for loop over the blocks.  gen_keys and
\* gen_initial_hash run anew in every call.
Enter ==
    /\ pc = "idle"
    /\ calls < MaxCalls
    /\ \E m \in Inputs, err \in PowErrors :
        /\ input' = m
        /\ key' = KeyTable[err]
        /\ msg' = padding(m)
        /\ msg_blocks' = parsing(padding(m))
        /\ hash_value' = InitialHashTable[err]
    /\ calls' = calls + 1
    /\ gen_runs' = gen_runs + 1
    /\ bi' = 1
    /\ ncompress' = 0
    /\ H' = <<>>
    /\ digest' = <<>>
    /\ pc' = "block"
    /\ UNCHANGED <<msg_schedule, t, wv, ulp, arg_x, arg_n, ret>>

\* lines 94-95 with msg_schedule = [] hoisted out of the for loop
NextBlock_keep_schedule ==
    /\ pc = "block"
    /\ bi <= Len(msg_blocks)
    /\ msg_schedule' = msg_schedule
    /\ t' = 0
    /\ pc' = "schedule"
    /\ UNCHANGED <<calls, gen_runs, input, msg, msg_blocks, bi, wv, key, hash_value,
                   H, digest, ncompress, ulp, arg_x, arg_n, ret>>

\* lines 94-95: the for loop takes its next block and empties the schedule
NextBlock ==
    /\ pc = "block"
    /\ bi <= Len(msg_blocks)
    /\ msg_schedule' = <<>>
    /\ t' = 0
    /\ pc' = "schedule"
    /\ UNCHANGED <<calls, gen_runs, input, msg, msg_blocks, bi, wv, key, hash_value,
                   H, digest, ncompress, ulp, arg_x, arg_n, ret>>

\* lines 98-109: one iteration of the schedule loop; after the last one the
\* for loop over the blocks goes on
ScheduleStep ==
    /\ pc = "schedule"
    /\ t < 64
    /\ IF t <= 15
       THEN /\ msg_schedule' = Append(msg_schedule, SubSeq(msg_blocks[bi], t * 4 + 1, t * 4 + 4))
            /\ pc' = IF t = 63 THEN "block" ELSE "schedule"
       ELSE IF to_bytes_raises(schedule_total(msg_schedule, t), 4)
       THEN /\ msg_schedule' = msg_schedule
            /\ pc' = "raised"
       ELSE /\ msg_schedule' = Append(msg_schedule, integer_to_bytes(schedule_total(msg_schedule, t)))
            /\ pc' = IF t = 63 THEN "block" ELSE "schedule"
    /\ t' = t + 1
    /\ bi' = IF t = 63 THEN bi + 1 ELSE bi
    /\ UNCHANGED <<calls, gen_runs, input, msg, msg_blocks, wv, key, hash_value,
                   H, digest, ncompress, ulp, arg_x, arg_n, ret>>

\* line 112, reached when the for loop over the blocks is exhausted
InitVariables ==
    /\ pc = "block"
    /\ bi > Len(msg_blocks)
    /\ wv' = hash_value
    /\ t' = 0
    /\ ncompress' = ncompress + 1
    /\ pc' = "round"
    /\ UNCHANGED <<calls, gen_runs, input, msg, msg_blocks, bi, msg_schedule, key,
                   hash_value, H, digest, ulp, arg_x, arg_n, ret>>

\* lines 114-124: one iteration of the round loop
RoundStep ==
    /\ pc = "round"
    /\ t < 64
    /\ wv' = compress_round(wv, key[t + 1], msg_schedule[t + 1])
    /\ t' = t + 1
    /\ UNCHANGED <<pc, calls, gen_runs, input, msg, msg_blocks, bi, msg_schedule, key,
                   hash_value, H, digest, ncompress, ulp, arg_x, arg_n, ret>>

\* lines 126-133: the fold into H and the return; integer_to_bytes raises
\* on an element of H that is no Word
Finish ==
    /\ pc = "round"
    /\ t = 64
    /\ H' = fold(hash_value, wv)
    /\ IF \E i \in 1..8 : to_bytes_raises(fold(hash_value, wv)[i], 4)
       THEN /\ digest' = digest
            /\ pc' = "raised"
       ELSE /\ digest' = join_words(fold(hash_value, wv))
            /\ pc' = "done"
    /\ UNCHANGED <<calls, gen_runs, input, msg, msg_blocks, bi, msg_schedule, t, wv, key,
                   hash_value, ncompress, ulp, arg_x, arg_n, ret>>

\* the caller has the digest; sha256's locals are gone
Return ==
    /\ pc = "done"
    /\ pc' = "idle"
    /\ input' = <<>>
    /\ msg' = <<>>
    /\ msg_blocks' = <<>>
    /\ bi' = 0
    /\ msg_schedule' = <<>>
    /\ t' = 0
    /\ wv' = <<>>
    /\ key' = <<>>
    /\ hash_value' = <<>>
    /\ H' = <<>>
    /\ digest' = <<>>
    /\ ncompress' = 0
    /\ ulp' = 0
    /\ UNCHANGED <<calls, gen_runs, arg_x, arg_n, ret>>

Next == Enter \/ NextBlock \/ ScheduleStep \/ InitVariables \/ RoundStep \/ Finish \/ Return

Spec == Init /\ [][Next]_vars

----------------------------------------------------------------------------
(* the generators alone, one list element at a time, each float power     *)
(* with a rounding error of its own                                        *)

Others == <<calls, gen_runs, input, msg, msg_blocks, bi, msg_schedule, t, wv,
            H, digest, ncompress, arg_x, arg_n, ret>>

GenInit ==
    /\ pc = "gen_keys"
    /\ calls = 0
    /\ gen_runs = 0
    /\ input = <<>>
    /\ msg = <<>>
    /\ msg_blocks = <<>>
    /\ bi = 0
    /\ msg_schedule = <<>>
    /\ t = 0
    /\ wv = <<>>
    /\ key = <<>>
    /\ hash_value = <<>>
    /\ H = <<>>
    /\ digest = <<>>
    /\ ncompress = 0
    /\ ulp = 0
    /\ arg_x = {}
    /\ arg_n = 0
    /\ ret = {}

\* line 57: the list comprehension of gen_keys takes the next prime
GenKeysStep ==
    /\ pc = "gen_keys"
    /\ \E err \in PowErrors :
        /\ key' = Append(key, convert_prime_fraction_to_hex(
                                  generate_n_primes(64)[Len(key) + 1], 3, 8, err))
        /\ ulp' = err
    /\ pc' = IF Len(key) + 1 = 64 THEN "gen_initial_hash" ELSE "gen_keys"
    /\ UNCHANGED hash_value
    /\ UNCHANGED Others

\* line 61: the list comprehension of gen_initial_hash takes the next prime
GenInitialHashStep ==
    /\ pc = "gen_initial_hash"
    /\ \E err \in PowErrors :
        /\ hash_value' = Append(hash_value, convert_prime_fraction_to_hex(
                                  generate_n_primes(8)[Len(hash_value) + 1], 2, 8, err))
        /\ ulp' = err
    /\ pc' = IF Len(hash_value) + 1 = 8 THEN "generated" ELSE "gen_initial_hash"
    /\ UNCHANGED key
    /\ UNCHANGED Others

GenNext == GenKeysStep \/ GenInitialHashStep

GenSpec == GenInit /\ [][GenNext]_vars

----------------------------------------------------------------------------
(* rotr alone, called on sample Words with every rotation 1..31 *)

SampleWords ==
    {{}, {0}, {1}, {31}, 0..31, {0, 31}, {i \in 0..31 : i % 2 = 0}, {4, 5, 6, 17, 30}}

PrimInit ==
    /\ pc = "call"
    /\ arg_x \in SampleWords
    /\ arg_n \in 1..31
    /\ ret = {}
    /\ calls = 0
    /\ gen_runs = 0
    /\ input = <<>>
    /\ msg = <<>>
    /\ msg_blocks = <<>>
    /\ bi = 0
    /\ msg_schedule = <<>>
    /\ t = 0
    /\ wv = <<>>
    /\ key = <<>>
    /\ hash_value = <<>>
    /\ H = <<>>
    /\ digest = <<>>
    /\ ncompress = 0
    /\ ulp = 0

\* lines 14-15
CallRotr ==
    /\ pc = "call"
    /\ ret' = rotr(arg_x, arg_n)
    /\ pc' = "returned"
    /\ UNCHANGED <<calls, gen_runs, input, msg, msg_blocks, bi, msg_schedule, t, wv,
                   key, hash_value, H, digest, ncompress, ulp, arg_x, arg_n>>

PrimNext == CallRotr

PrimSpec == PrimInit /\ [][PrimNext]_vars

----------------------------------------------------------------------------
(* FIPS 180-4, to compare the program with: 32-bit functions whose results *)
(* are Words, the published constants, and the hash computation of its     *)
(* section 6.2.2 with the padding of its section 5.1.1.                    *)

IsWord(x) == x \subseteq 0..31

\* the Word with the 16-bit halves hi and lo
Word16(hi, lo) == BitsOf(lo) \cup shl(BitsOf(hi), 16)

FIPS_K ==
    << Word16(\h428a, \h2f98), Word16(\h7137, \h4491),
       Word16(\hb5c0, \hfbcf), Word16(\he9b5, \hdba5),
       Word16(\h3956, \hc25b), Word16(\h59f1, \h11f1),
       Word16(\h923f, \h82a4), Word16(\hab1c, \h5ed5),
       Word16(\hd807, \haa98), Word16(\h1283, \h5b01),
       Word16(\h2431, \h85be), Word16(\h550c, \h7dc3),
       Word16(\h72be, \h5d74), Word16(\h80de, \hb1fe),
       Word16(\h9bdc, \h06a7), Word16(\hc19b, \hf174),
       Word16(\he49b, \h69c1), Word16(\hefbe, \h4786),
       Word16(\h0fc1, \h9dc6), Word16(\h240c, \ha1cc),
       Word16(\h2de9, \h2c6f), Word16(\h4a74, \h84aa),
       Word16(\h5cb0, \ha9dc), Word16(\h76f9, \h88da),
       Word16(\h983e, \h5152), Word16(\ha831, \hc66d),
       Word16(\hb003, \h27c8), Word16(\hbf59, \h7fc7),
       Word16(\hc6e0, \h0bf3), Word16(\hd5a7, \h9147),
       Word16(\h06ca, \h6351), Word16(\h1429, \h2967),
       Word16(\h27b7, \h0a85), Word16(\h2e1b, \h2138),
       Word16(\h4d2c, \h6dfc), Word16(\h5338, \h0d13),
       Word16(\h650a, \h7354), Word16(\h766a, \h0abb),
       Word16(\h81c2, \hc92e), Word16(\h9272, \h2c85),
       Word16(\ha2bf, \he8a1), Word16(\ha81a, \h664b),
       Word16(\hc24b, \h8b70), Word16(\hc76c, \h51a3),
       Word16(\hd192, \he819), Word16(\hd699, \h0624),
       Word16(\hf40e, \h3585), Word16(\h106a, \ha070),
       Word16(\h19a4, \hc116), Word16(\h1e37, \h6c08),
       Word16(\h2748, \h774c), Word16(\h34b0, \hbcb5),
       Word16(\h391c, \h0cb3), Word16(\h4ed8, \haa4a),
       Word16(\h5b9c, \hca4f), Word16(\h682e, \h6ff3),
       Word16(\h748f, \h82ee), Word16(\h78a5, \h636f),
       Word16(\h84c8, \h7814), Word16(\h8cc7, \h0208),
       Word16(\h90be, \hfffa), Word16(\ha450, \h6ceb),
       Word16(\hbef9, \ha3f7), Word16(\hc671, \h78f2) >>

FIPS_H0 ==
    << Word16(\h6a09, \he667), Word16(\hbb67, \hae85),
       Word16(\h3c6e, \hf372), Word16(\ha54f, \hf53a),
       Word16(\h510e, \h527f), Word16(\h9b05, \h688c),
       Word16(\h1f83, \hd9ab), Word16(\h5be0, \hcd19) >>

ROTR32(x, n) == {(i - n) % 32 : i \in x}

SHR32(x, n) == {i - n : i \in {j \in x : j >= n}}

ADD32(x, y) == mod32(add(x, y))

FIPS_Ch(x, y, z) == xor(x \cap y, ((0..31) \ x) \cap z)

FIPS_Maj(x, y, z) == xor(xor(x \cap y, x \cap z), y \cap z)

FIPS_Sum0(x) == xor(xor(ROTR32(x, 2), ROTR32(x, 13)), ROTR32(x, 22))

FIPS_Sum1(x) == xor(xor(ROTR32(x, 6), ROTR32(x, 11)), ROTR32(x, 25))

FIPS_Sig0(x) == xor(xor(ROTR32(x, 7), ROTR32(x, 18)), SHR32(x, 3))

FIPS_Sig1(x) == xor(xor(ROTR32(x, 17), ROTR32(x, 19)), SHR32(x, 10))

\* the Word of the big-endian bytes b[from], .., b[from + 3]
WordAt(b, from) ==
    {j \in 0..31 : (b[from + 3 - (j \div 8)] \div 2^(j % 8)) % 2 = 1}

\* the four big-endian bytes of the Word x
WordBytes(x) == [k \in 1..4 |-> Field(x, 8 * (4 - k), 8)]

\* the message schedule W_0 .. W_63 of a block, as Words
RECURSIVE FIPS_Schedule(_, _)
FIPS_Schedule(block, W) ==
    IF Len(W) = 64 THEN W
    ELSE IF Len(W) < 16 THEN FIPS_Schedule(block, Append(W, WordAt(block, 4 * Len(W) + 1)))
    ELSE FIPS_Schedule(block,
            Append(W, ADD32(ADD32(ADD32(FIPS_Sig1(W[Len(W) - 1]), W[Len(W) - 6]),
                                  FIPS_Sig0(W[Len(W) - 14])), W[Len(W) - 15])))

FIPS_T1(v, k, w) == ADD32(ADD32(ADD32(ADD32(v[8], FIPS_Sum1(v[5])), FIPS_Ch(v[5], v[6], v[7])), k), w)

FIPS_T2(v) == ADD32(FIPS_Sum0(v[1]), FIPS_Maj(v[1], v[2], v[3]))

FIPS_Assign(v, T1, T2) ==
    <<ADD32(T1, T2), v[1], v[2], v[3], ADD32(v[4], T1), v[5], v[6], v[7]>>

\* one round on the working variables v = <<a, .., h>>
FIPS_Round(v, k, w) == FIPS_Assign(v, FIPS_T1(v, k, w), FIPS_T2(v))

\* rounds i, .., 63 on st = <<working variables, i>>
RECURSIVE FIPS_Rounds(_, _, _)
FIPS_Rounds(st, K, W) ==
    IF st[2] = 64 THEN st[1]
    ELSE FIPS_Rounds(<<FIPS_Round(st[1], K[st[2] + 1], W[st[2] + 1]), st[2] + 1>>, K, W)

FIPS_Add8(hv, v) == [i \in 1..8 |-> ADD32(hv[i], v[i])]

\* the intermediate hash value after a block, from the one before it
FIPS_Block(hv, block) ==
    FIPS_Add8(hv, FIPS_Rounds(<<hv, 0>>, FIPS_K, FIPS_Schedule(block, <<>>)))

\* the number of zero bytes of the padding of an n-byte message
FIPS_Zeros(n) == (55 - n) % 64

\* the padded message; the length field is that of a message under 2^13
\* bytes, two bytes of bit length after six zero bytes
FIPS_Pad(m) ==
    m \o <<128>> \o [i \in 1..FIPS_Zeros(Len(m)) |-> 0]
      \o <<0, 0, 0, 0, 0, 0, (8 * Len(m)) \div 256, (8 * Len(m)) % 256>>

\* the hash of the blocks i, .., of the padded message p from
\* st = <<intermediate hash value, i>>
RECURSIVE FIPS_Blocks(_, _)
FIPS_Blocks(st, p) ==
    IF 64 * (st[2] - 1) >= Len(p) THEN st[1]
    ELSE FIPS_Blocks(<<FIPS_Block(st[1], SubSeq(p, 64 * (st[2] - 1) + 1, 64 * st[2])),
                       st[2] + 1>>, p)

DigestBytes(hv) == [i \in 1..32 |-> WordBytes(hv[((i - 1) \div 4) + 1])[((i - 1) % 4) + 1]]

\* SHA-256(m)
FIPS_SHA256(m) == DigestBytes(FIPS_Blocks(<<FIPS_H0, 1>>, FIPS_Pad(m)))

----------------------------------------------------------------------------
(* The claims *)

\* C1: for every input, the multi-block ones included, sha256 returns the
\* FIPS 180-4 SHA-256 digest of the input.
C1_DigestIsFIPS == pc = "done" => digest = FIPS_SHA256(input)

\* C2: in a call on a message of N blocks the 64-round compression runs N
\* times, once per block.
C2_CompressionPerBlock == pc = "done" => ncompress = Len(msg_blocks)

\* the 8-byte big-endian bit length of an n-byte message under 2^13 bytes
LengthField(n) == <<0, 0, 0, 0, 0, 0, (8 * n) \div 256, (8 * n) % 256>>

\* C3: padding returns the n input bytes, then 0x80, then the least z >= 0
\* zero bytes with (n + 1 + z) mod 64 = 56, then 8n as 8 big-endian bytes;
\* the padded length is 64 * (floor((n + 8) / 64) + 1); 55 bytes make one
\* block, 56 and 64 bytes make two.
C3_Padding ==
    pc \in {"block", "schedule", "round", "done"} =>
        /\ \E z \in 0..63 :
            /\ (Len(input) + 1 + z) % 64 = 56
            /\ \A y \in 0..(z - 1) : (Len(input) + 1 + y) % 64 # 56
            /\ Len(input) % 64 = 55 => z = 0
            /\ msg = input \o <<128>> \o [i \in 1..z |-> 0] \o LengthField(Len(input))
        /\ Len(msg) % 64 = 0
        /\ Len(msg) = 64 * ((Len(input) + 8) \div 64 + 1)
        /\ Len(msg_blocks) = (Len(input) + 8) \div 64 + 1
        /\ Len(input) = 55 => Len(msg_blocks) = 1
        /\ Len(input) \in {56, 64} => Len(msg_blocks) = 2

\* C3's case: a 55-byte input, padded with no zero byte into one block
C3_Witness == pc = "block" /\ Len(input) = 55 /\ Len(msg) = 64 /\ msg[56] = 128

\* C4: across the sha256 calls of one process the tables are generated at
\* most once.
C4_TablesGeneratedOnce == gen_runs <= 1

\* C5: sha256 raises no error, every running state of a call is within
\* its loops' bounds with the guard of a next step true, and the call
\* returns 32 bytes, the 4-byte big-endian encodings of the eight words of
\* H, each a Word.
C5_Returns32Bytes ==
    /\ pc # "raised"
    /\ pc = "block" => bi \in 1..(Len(msg_blocks) + 1)
    /\ pc = "schedule" => bi \in 1..Len(msg_blocks) /\ t \in 0..63
    /\ pc = "round" => t \in 0..64
    /\ pc = "done" =>
        /\ Len(digest) = 32
        /\ \A i \in 1..32 : digest[i] \in 0..255
        /\ Len(H) = 8
        /\ \A i \in 1..8 : IsWord(H[i]) /\ SubSeq(digest, 4 * i - 3, 4 * i) = WordBytes(H[i])

\* C5's case: the call on the empty input has returned
C5_Witness == pc = "done" /\ input = <<>> /\ Len(digest) = 32

\* the products of two numbers from 2 on, up to 311: one factor is under 18
Composites == {d * q : d \in 2..17, q \in 2..155}

\* the generator yields the first 64 primes in increasing order
FirstPrimes ==
    /\ Len(Primes) = 64
    /\ \A i \in 1..63 : Primes[i] < Primes[i + 1]
    /\ {Primes[i] : i \in 1..64} = (2..311) \ Composites
    /\ generate_n_primes(8) = SubSeq(Primes, 1, 8)

\* C6: gen_keys returns the 64 round constants and gen_initial_hash the 8
\* initial hash words of FIPS 180-4, from the first primes in increasing
\* order, whatever the rounding of the float powers.
C6_TablesAreFIPS ==
    /\ FirstPrimes
    /\ Len(key) <= 64 /\ Len(hash_value) <= 8
    /\ \A i \in 1..Len(key) : IsWord(key[i]) /\ key[i] = FIPS_K[i]
    /\ \A i \in 1..Len(hash_value) : IsWord(hash_value[i]) /\ hash_value[i] = FIPS_H0[i]
    /\ pc = "generated" => Len(key) = 64 /\ Len(hash_value) = 8

\* C6's case: both lists are complete, the last power rounded off the real root
C6_Witness == pc = "generated" /\ Len(key) = 64 /\ Len(hash_value) = 8 /\ ulp # 0

\* C7: one iteration of the compression loop gives the working variables of
\* the FIPS round (T1, T2 and the rotations taken in 32 bits), all Words.
C7_RoundIsFIPSRound ==
    [][(pc = "round" /\ t < 64) =>
          /\ t' = t + 1
          /\ wv' = FIPS_Round(wv, key[t + 1], WordAt(msg_schedule[t + 1], 1))
          /\ \A i \in 1..8 : IsWord(wv'[i])]_vars

\* C7's case: a round is done whose temp_1, temp_2 and rotr were wider
\* than 32 bits
C7_Witness ==
    /\ pc = "round" /\ t \in 1..63
    /\ ~IsWord(temp_1(wv, key[t + 1], msg_schedule[t + 1]))
    /\ ~IsWord(temp_2(wv))
    /\ ~IsWord(rotr(wv[5], 6))

SameSchedule(sched, W) ==
    /\ Len(sched) = 64
    /\ \A i \in 1..64 : IsWord(W[i]) /\ Len(sched[i]) = 4 /\ sched[i] = WordBytes(W[i])

\* C8: the schedule built for a block has 64 entries, the 4-byte encodings
\* of the Words W[0..63] of FIPS 180-4 for that block alone, and is built
\* from empty.
C8_ScheduleIsFIPS ==
    /\ pc = "schedule" => Len(msg_schedule) = t /\ t <= 64
    /\ (pc = "block" /\ bi > 1) =>
           SameSchedule(msg_schedule, FIPS_Schedule(msg_blocks[bi - 1], <<>>))

\* C8's case: the schedule of the second block of a message is complete
C8_Witness == pc = "block" /\ bi = 3 /\ Len(msg_schedule) = 64

\* C9: rotr(x, n) of a Word x, n in 1..31, is a Word, the rotation of x by
\* n within 32 bits.
C9_RotrIsWord == pc = "returned" => IsWord(ret) /\ ret = ROTR32(arg_x, arg_n)

LastBlock(p) == SubSeq(p, Len(p) - 63, Len(p))

====
